---- MODULE Spec2Model ----
(***************************************************************************)
(* Model of streamlite.py: a Streamlit page with a provider selector, a    *)
(* query box and a search button, and two provider functions,              *)
(* agent_websearch (OpenAI Responses API with the web_search tool) and     *)
(* firecrawl_websearch (Firecrawl search), whose results the page turns    *)
(* into one text shown in the "Result:" area.                              *)
(*                                                                         *)
(* A Python str is a sequence of chunks (the literal pieces of the         *)
(* f-strings and the opaque texts that come from upstream); "" is <<>>,    *)
(* concatenation is \o, and truthiness of a str or a list is # <<>>.       *)
(* An Optional[str] attribute is [some |-> FALSE] for None and             *)
(* [some |-> TRUE, v |-> s] for the str s.                                 *)
(***************************************************************************)
EXTENDS Integers, Sequences, FiniteSets, TLC

VARIABLES
    search_provider,  \* the sidebar radio's value
    user_query,       \* the query text area's value
    search_button,    \* TRUE in the script run the button press started
    state,            \* "Idle" | "AwaitingResult" | "Displayed" | "Failed"
    warning,          \* st.warning is shown
    result_display,   \* value of the "result_display" text area, <<>> when not rendered
    exception,        \* exception that escaped the script run, or "none"
    calls,            \* provider invocations of the current script run
    requests,         \* upstream requests issued in the current script run
    inflight,         \* upstream requests not yet returned
    secret,           \* outcome of st.secrets.get in the current call
    upstream,         \* outcome of the upstream request of the current call
    result            \* value the provider function returned

vars == <<search_provider, user_query, search_button, state, warning,
          result_display, exception, calls, requests, inflight, secret,
          upstream, result>>

-----------------------------------------------------------------------------
(* Bounds of the enumerated inputs *)

MaxItems == 2     \* items in response.output
MaxAnn == 1       \* annotations on one output_text
MaxQueries == 1   \* queries on one web_search_call action
MaxResults == 2   \* entries of results.web

BSeq(S, n) == UNION {[1..k -> S] : k \in 0..n}

-----------------------------------------------------------------------------
(* Python values *)

PyStr(s) == [pytype |-> "str", v |-> s]
PyDict(d) == [pytype |-> "dict", v |-> d]
NoValue == [pytype |-> "none"]

None == [some |-> FALSE]
Some(s) == [some |-> TRUE, v |-> s]
Truthy(o) == o.some /\ o.v # <<>>

RECURSIVE Join(_, _)
\* sep.join(xs) for a list xs of strs
Join(sep, xs) ==
    IF xs = <<>> THEN <<>>
    ELSE IF Len(xs) = 1 THEN Head(xs)
    ELSE Head(xs) \o sep \o Join(sep, Tail(xs))

-----------------------------------------------------------------------------
(* The widgets' domains *)

Providers == {"OpenAI", "Firecrawl"}
Queries == {<<>>, <<"capital of France">>}
PLACEHOLDER == <<"Results will appear here after you enter a query and click Search...">>

\* st.secrets.get(name): raises (no secrets file), None (not configured),
\* "" (configured empty) or a key
SecretOutcomes == {"raises", "none", "empty", "key"}

\* exceptions the upstream client can raise
Exceptions == {[type |-> "ConnectionError", msg |-> <<"e1">>],
               [type |-> "ValueError", msg |-> <<"e2">>]}

NoUpstream == [kind |-> "none"]

-----------------------------------------------------------------------------
(* Provider A: the Responses API's output, as agent_websearch reads it *)

Texts == {<<>>, <<"a">>, <<"b">>}
SearchTerms == {<<"q1">>, <<"q2">>}

\* annotations of an output_text: url citations and one other kind
UrlCitations == {[type |-> "url_citation", url |-> <<"u1">>, title |-> <<"t1">>],
                 [type |-> "url_citation", url |-> <<"u2">>, title |-> <<"t2">>]}
Annotations == UrlCitations \cup {[type |-> "file_citation", file_id |-> <<"f1">>]}

\* content parts of a message: output_text (with annotations) or refusal;
\* a message carries no part or one part
ContentItems ==
    {[type |-> "output_text", text |-> t, annotations |-> an] :
        t \in Texts, an \in BSeq(Annotations, MaxAnn)}
    \cup {[type |-> "refusal", refusal |-> <<"r">>]}
Contents == {<<>>} \cup {<<c>> : c \in ContentItems}

\* output items: message, web_search_call (without action, with an action that
\* has no queries, with a search action), and any other item
Messages == {[type |-> "message", content |-> c] : c \in Contents}
WebSearchCalls ==
    {[type |-> "web_search_call"],
     [type |-> "web_search_call", action |-> [type |-> "open_page"]]}
    \cup {[type |-> "web_search_call", action |-> [type |-> "search", queries |-> qs]] :
            qs \in BSeq(SearchTerms, MaxQueries)}
OtherItems == {[type |-> "reasoning"]}
OutputItems == Messages \cup WebSearchCalls \cup OtherItems
Responses == {[output |-> o] : o \in BSeq(OutputItems, MaxItems)}

\* outcomes of client.responses.create
AgentUpstream == {[kind |-> "ok", response |-> r] : r \in Responses}
                 \cup {[kind |-> "raise", e |-> e] : e \in Exceptions}

hasattr(obj, name) == name \in DOMAIN obj

\* a faulty line 79: answer += content_item.text
ExtractTextConcat(answer, content_item) == answer \o content_item.text

\* line 79: answer = content_item.text
ExtractText(answer, content_item) == content_item.text

\* a faulty lines 85-88: sources.insert(0, {...})
AppendSourceFirst(sources, annotation) ==
    <<[url |-> annotation.url, title |-> annotation.title]>> \o sources

\* lines 85-88: sources.append({'url': ..., 'title': ...})
AppendSource(sources, annotation) ==
    Append(sources, [url |-> annotation.url, title |-> annotation.title])

\* a faulty line 94: search_queries = item.action.queries
ExtendQueriesOverwrite(search_queries, queries) == queries

\* line 94: search_queries.extend(item.action.queries)
ExtendQueries(search_queries, queries) == search_queries \o queries

RECURSIVE ParseAnnotations(_, _)
\* lines 82-88: the loop over content_item.annotations
ParseAnnotations(annotations, sources) ==
    IF annotations = <<>> THEN sources
    ELSE LET annotation == Head(annotations)
         IN ParseAnnotations(Tail(annotations),
                IF hasattr(annotation, "type") /\ annotation.type = "url_citation"
                THEN AppendSource(sources, annotation)
                ELSE sources)

RECURSIVE ParseContent(_, _)
\* lines 77-88: the loop over item.content
ParseContent(content, acc) ==
    IF content = <<>> THEN acc
    ELSE LET content_item == Head(content)
         IN ParseContent(Tail(content),
                IF hasattr(content_item, "type") /\ content_item.type = "output_text"
                THEN [acc EXCEPT
                        !.answer = ExtractText(acc.answer, content_item),
                        !.sources = IF hasattr(content_item, "annotations")
                                    THEN ParseAnnotations(content_item.annotations, @)
                                    ELSE @]
                ELSE acc)

\* lines 75-94: the body of the loop over response.output, for one item
ParseItem(item, acc) ==
    LET a1 == IF hasattr(item, "type") /\ item.type = "message" /\ hasattr(item, "content")
              THEN ParseContent(item.content, acc)
              ELSE acc
    IN IF hasattr(item, "type") /\ item.type = "web_search_call"
       THEN [a1 EXCEPT
               !.web_search_count = @ + 1,
               !.search_queries =
                   IF hasattr(item, "action") /\ hasattr(item.action, "queries")
                   THEN ExtendQueries(@, item.action.queries)
                   ELSE @]
       ELSE a1

RECURSIVE ParseItems(_, _)
\* line 73: for item in response.output
ParseItems(items, acc) ==
    IF items = <<>> THEN acc
    ELSE ParseItems(Tail(items), ParseItem(Head(items), acc))

\* lines 66-111: the result built from a response
AgentParse(response) ==
    LET acc == ParseItems(response.output,
                   [answer |-> <<>>, sources |-> <<>>, search_queries |-> <<>>,
                    web_search_count |-> 0])
    IN [answer |-> acc.answer, sources |-> acc.sources,
        search_queries |-> acc.search_queries]

\* lines 37-43
AgentMissingKey ==
    [answer |-> <<"Error: API key not found. Please configure your OpenAI API key.">>,
     sources |-> <<>>, search_queries |-> <<>>, web_search_count |-> 0, usage |-> <<>>]

\* lines 112-121
AgentError(e) ==
    [answer |-> <<"Error during web search: ">> \o e.msg,
     sources |-> <<>>, search_queries |-> <<>>, web_search_count |-> 0, usage |-> <<>>]

\* lines 33-34 and 131-132
NoKey == <<"no key">>

\* line 35: not api_key
KeyMissing(sec) == sec \in {"none", "empty"}

\* agent_websearch, given what the secret store and the upstream call do;
\* up is read only when the request is issued
agent_websearch(sec, up) ==
    IF sec = "raises" THEN PyStr(NoKey)
    ELSE IF KeyMissing(sec) THEN PyDict(AgentMissingKey)
    ELSE IF up.kind = "raise" THEN PyDict(AgentError(up.e))
    ELSE PyDict(AgentParse(up.response))

\* agent_websearch reaches client.responses.create
AgentIssuesRequest(sec) == sec # "raises" /\ ~KeyMissing(sec)

-----------------------------------------------------------------------------
(* The shell's formatting of agent_websearch's result, lines 199-207 *)

\* result.get(key, default)
Get(d, key, default) == IF key \in DOMAIN d THEN d[key] ELSE default

\* if result.get(key): present and not empty
GetTruthy(d, key) == key \in DOMAIN d /\ d[key] # <<>>

RECURSIVE SourceLines(_)
\* lines 202-203
SourceLines(sources) ==
    IF sources = <<>> THEN <<>>
    ELSE LET source == Head(sources)
         IN <<"- ">> \o Get(source, "title", <<"N/A">>) \o <<": ">>
            \o Get(source, "url", <<"N/A">>) \o <<"\n">>
            \o SourceLines(Tail(sources))

\* a faulty line 206: if 'usage' in result
UsageSectionIfPresent(d) ==
    IF "usage" \in DOMAIN d THEN <<"\nToken Usage: ", "usage">> ELSE <<>>

\* lines 206-207
UsageSection(d) ==
    IF GetTruthy(d, "usage") THEN <<"\nToken Usage: ", "usage">> ELSE <<>>

\* lines 204-205
QueriesSection(d) ==
    IF GetTruthy(d, "search_queries")
    THEN <<"\nSearch Queries Used: ">> \o Join(<<", ">>, d.search_queries) \o <<"\n">>
    ELSE <<>>

\* lines 200-203
SourcesSection(d) ==
    IF GetTruthy(d, "sources")
    THEN <<"Sources:\n">> \o SourceLines(d.sources)
    ELSE <<>>

\* lines 199-207, for a dict
FormatAgentResult(d) ==
    <<"Answer:\n">> \o Get(d, "answer", <<"No answer available">>) \o <<"\n\n">>
    \o SourcesSection(d) \o QueriesSection(d) \o UsageSection(d)

\* line 199: result.get on a str raises AttributeError
GetRaises(r) == r.pytype # "dict"

-----------------------------------------------------------------------------
(* Provider B: the Firecrawl search result, as firecrawl_websearch reads it *)

OptTitles == {None, Some(<<>>), Some(<<"Paris - Wikipedia">>)}
OptSourceUrls == {None, Some(<<"https://s">>)}
OptUrls == {None, Some(<<>>), Some(<<"https://u">>)}
OptMarkdowns == {None, Some(<<>>), Some(<<"md">>)}

\* r.metadata: None, or an object with title, source_url and url
Metadatas ==
    {None} \cup {[some |-> TRUE, title |-> t, source_url |-> s, url |-> u] :
                    t \in OptTitles, s \in OptSourceUrls, u \in OptUrls}

\* entries of results.web: documents (with markdown and metadata) and plain
\* search hits, which have no markdown attribute
WebDocuments == {[markdown |-> m, metadata |-> md] : m \in OptMarkdowns, md \in Metadatas}
WebHits == {[url |-> <<"https://h">>, title |-> <<"hit">>]}
WebEntries == WebDocuments \cup WebHits

\* results.web: None or a list
WebLists == {None} \cup {[some |-> TRUE, v |-> w] : w \in BSeq(WebEntries, MaxResults)}

\* outcomes of Firecrawl(api_key=...) and firecrawl.search
FirecrawlUpstream == {[kind |-> "ok", web |-> w] : w \in WebLists}
                     \cup {[kind |-> "raise", e |-> e] : e \in Exceptions}

\* line 145
NO_RESULTS_FOR_QUERY == <<"No results found for your query.">>
\* line 154
NO_RESULTS == <<"No results found.">>

\* line 148
TitleOf(r) ==
    IF r.metadata.some /\ Truthy(r.metadata.title) THEN r.metadata.title.v ELSE <<"N/A">>

\* a faulty line 149: the secondary url preferred to source_url
UrlOfSecondaryFirst(r) ==
    IF r.metadata.some /\ Truthy(r.metadata.url) THEN r.metadata.url.v
    ELSE IF r.metadata.some /\ Truthy(r.metadata.source_url) THEN r.metadata.source_url.v
    ELSE <<"N/A">>

\* line 149
UrlOf(r) ==
    IF r.metadata.some /\ Truthy(r.metadata.source_url) THEN r.metadata.source_url.v
    ELSE IF r.metadata.some /\ Truthy(r.metadata.url) THEN r.metadata.url.v
    ELSE <<"N/A">>

\* line 150
MarkdownOf(r) == IF Truthy(r.markdown) THEN r.markdown.v ELSE <<"No content">>

\* lines 148-150: the block of one result
Block(r) ==
    <<"TITLE: ">> \o TitleOf(r) \o <<"\n">>
    \o <<"URL: ">> \o UrlOf(r) \o <<"\n">>
    \o <<"MARKDOWN: ">> \o MarkdownOf(r) \o <<"...">>

\* line 151: for r in web_results if hasattr(r, 'markdown')
Qualifying(web_results) == SelectSeq(web_results, LAMBDA r : hasattr(r, "markdown"))

\* lines 147-152
Context(web_results) ==
    LET rs == Qualifying(web_results)
    IN Join(<<"\n\n">>, [i \in 1..Len(rs) |-> Block(rs[i])])

\* lines 141-154
FirecrawlFormat(web) ==
    LET web_results == IF web.some /\ web.v # <<>> THEN web.v ELSE <<>>
    IN IF web_results = <<>> THEN NO_RESULTS_FOR_QUERY
       ELSE IF Context(web_results) # <<>> THEN Context(web_results)
       ELSE NO_RESULTS

\* line 157
ConnectionErrorText(e) ==
    <<"Connection Error: Unable to connect to Firecrawl API.\nThis could be due to:\n  - No internet connection\n  - DNS resolution failure\n  - Firewall or proxy blocking the connection\n\nOriginal error: ">>
    \o e.msg

\* line 159
OtherErrorText(e) ==
    <<"Error occurred while searching: ", e.type, "\nDetails: ">> \o e.msg

\* firecrawl_websearch, given what the secret store and the upstream call do;
\* the key is handed to Firecrawl whatever st.secrets.get returned
firecrawl_websearch(sec, up) ==
    IF sec = "raises" THEN PyStr(NoKey)
    ELSE IF up.kind = "raise"
         THEN IF up.e.type = "ConnectionError"
              THEN PyStr(ConnectionErrorText(up.e))
              ELSE PyStr(OtherErrorText(up.e))
    ELSE PyStr(FirecrawlFormat(up.web))

\* firecrawl_websearch reaches Firecrawl(...) and firecrawl.search
FirecrawlIssuesRequest(sec) == sec # "raises"

-----------------------------------------------------------------------------
(* The page: one script run per user action, lines 163-230 *)

NoCalls == [agent_websearch |-> 0, firecrawl_websearch |-> 0]

Init ==
    /\ search_provider = "OpenAI"
    /\ user_query = <<>>
    /\ search_button = FALSE
    /\ state = "Idle"
    /\ warning = FALSE
    /\ result_display = <<>>
    /\ exception = "none"
    /\ calls = NoCalls
    /\ requests = 0
    /\ inflight = 0
    /\ secret = "unread"
    /\ upstream = NoUpstream
    /\ result = NoValue

\* a faulty line 194: if search_button, the query not looked at
BranchNoEmptyCheck(button, query) == IF button THEN "search" ELSE "placeholder"

\* lines 194, 218, 220: the branch the script run takes
Branch(button, query) ==
    IF button /\ query # <<>> THEN "search"
    ELSE IF button /\ query = <<>> THEN "warn"
    ELSE "placeholder"

\* lines 196, 208: the provider function the search branch calls
ProviderFor(provider) ==
    IF provider = "OpenAI" THEN "agent_websearch" ELSE "firecrawl_websearch"

\* The script runs from the top: nothing of the previous run is kept but the
\* widgets' values.
StartRun(button, query) ==
    /\ search_button' = button
    /\ state' = IF Branch(button, query) = "search" THEN "AwaitingResult" ELSE "Idle"
    /\ warning' = (Branch(button, query) = "warn")
    /\ result_display' = IF Branch(button, query) = "placeholder" THEN PLACEHOLDER ELSE <<>>
    /\ exception' = "none"
    /\ calls' = NoCalls
    /\ requests' = 0
    /\ inflight' = 0
    /\ secret' = "unread"
    /\ upstream' = NoUpstream
    /\ result' = NoValue

\* The page takes no user action while a script run is blocked in a call.
Responsive == state # "AwaitingResult"

\* lines 171-175: the user picks a provider; the script reruns, button not pressed
SelectProvider(p) ==
    /\ Responsive
    /\ p # search_provider
    /\ search_provider' = p
    /\ UNCHANGED user_query
    /\ StartRun(FALSE, user_query)

\* lines 182-187: the user edits the query; the script reruns, button not pressed
EditQuery(q) ==
    /\ Responsive
    /\ q # user_query
    /\ user_query' = q
    /\ UNCHANGED search_provider
    /\ StartRun(FALSE, q)

\* lines 189-195, 218-219: the user presses Search; the script reruns up to the
\* provider call (spinner shown) or to the warning
PressSearch ==
    /\ Responsive
    /\ UNCHANGED <<search_provider, user_query>>
    /\ StartRun(TRUE, user_query)

\* lines 199-217: the shell formats the returned value and renders it
Render(fn, r) ==
    /\ result' = r
    /\ IF fn = "agent_websearch" /\ GetRaises(r)
       THEN /\ exception' = "AttributeError"
            /\ state' = "Failed"
            /\ result_display' = <<>>
       ELSE /\ exception' = "none"
            /\ state' = "Displayed"
            /\ result_display' = IF fn = "agent_websearch"
                                 THEN FormatAgentResult(r.v)
                                 ELSE r.v

\* lines 196-197, 208-209 with 31-45, 129-133: the provider function is entered
\* and looks its key up; it returns at once or issues its upstream request
InvokeProvider ==
    /\ state = "AwaitingResult"
    /\ calls = NoCalls
    /\ \E sec \in SecretOutcomes :
        LET fn == ProviderFor(search_provider)
            issues == IF fn = "agent_websearch" THEN AgentIssuesRequest(sec)
                      ELSE FirecrawlIssuesRequest(sec)
        IN /\ secret' = sec
           /\ calls' = [calls EXCEPT ![fn] = @ + 1]
           /\ IF issues
              THEN /\ requests' = requests + 1
                   /\ inflight' = inflight + 1
                   /\ UNCHANGED <<state, result_display, exception, result>>
              ELSE /\ Render(fn, IF fn = "agent_websearch"
                                 THEN agent_websearch(sec, NoUpstream)
                                 ELSE firecrawl_websearch(sec, NoUpstream))
                   /\ UNCHANGED <<requests, inflight>>
    /\ UNCHANGED <<search_provider, user_query, search_button, warning, upstream>>

\* lines 48-121, 133-159, then 199-217: the upstream call returns or raises, the
\* provider function builds its result, and the shell renders it
UpstreamReturn ==
    /\ inflight = 1
    /\ LET fn == IF calls["agent_websearch"] = 1 THEN "agent_websearch"
                 ELSE "firecrawl_websearch"
       IN \E up \in (IF fn = "agent_websearch" THEN AgentUpstream ELSE FirecrawlUpstream) :
            /\ upstream' = up
            /\ inflight' = inflight - 1
            /\ Render(fn, IF fn = "agent_websearch"
                          THEN agent_websearch(secret, up)
                          ELSE firecrawl_websearch(secret, up))
    /\ UNCHANGED <<search_provider, user_query, search_button, warning, calls,
                   requests, secret>>

Next ==
    \/ \E p \in Providers : SelectProvider(p)
    \/ \E q \in Queries : EditQuery(q)
    \/ PressSearch
    \/ InvokeProvider
    \/ UpstreamReturn

Spec == Init /\ [][Next]_vars

-----------------------------------------------------------------------------
(* What the properties speak of *)

\* A search action (button pressed, query not empty) has run to its end.
SearchRunEnded == search_button /\ user_query # <<>> /\ state # "AwaitingResult"

AgentDisplayed == state = "Displayed" /\ calls["agent_websearch"] = 1
FirecrawlDisplayed == state = "Displayed" /\ calls["firecrawl_websearch"] = 1

RECURSIVE Flatten(_)
Flatten(ss) == IF ss = <<>> THEN <<>> ELSE Head(ss) \o Flatten(Tail(ss))

\* positions of a chunk in a text, and a text occurring at a position
Occurrences(text, chunk) == {i \in 1..Len(text) : text[i] = chunk}
OccursAt(text, i, sub) ==
    /\ i + Len(sub) - 1 <= Len(text)
    /\ \A k \in 1..Len(sub) : text[i + k - 1] = sub[k]

\* the output_text parts of a response, in output order
TextParts(response) ==
    LET msgs == SelectSeq(response.output, LAMBDA it : it.type = "message")
    IN Flatten([i \in 1..Len(msgs) |->
                  SelectSeq(msgs[i].content, LAMBDA c : c.type = "output_text")])

\* the url_citation annotations of a response, in emission order
Cited(response) ==
    LET parts == TextParts(response)
        anns == Flatten([i \in 1..Len(parts) |->
                           SelectSeq(parts[i].annotations,
                                     LAMBDA a : a.type = "url_citation")])
    IN [k \in 1..Len(anns) |-> [url |-> anns[k].url, title |-> anns[k].title]]

\* the queries the web_search_call items of a response carry, in issue order
QueryLog(response) ==
    LET wsc == SelectSeq(response.output,
                   LAMBDA it : /\ it.type = "web_search_call"
                               /\ "action" \in DOMAIN it
                               /\ "queries" \in DOMAIN it.action)
    IN Flatten([i \in 1..Len(wsc) |-> wsc[i].action.queries])

\* the entries of results.web that expose content
ExposesContent(r) == "markdown" \in DOMAIN r
WebList(web) == IF web.some THEN web.v ELSE <<>>
QualifyingAt(web) == {i \in 1..Len(WebList(web)) : ExposesContent(WebList(web)[i])}

-----------------------------------------------------------------------------
(* C1 - C5: the shell and the providers' failure paths *)

\* C1: whatever the provider call meets (success, the secret lookup raising, an
\* absent credential, a connectivity failure, any other upstream exception), no
\* exception reaches the shell: every search action with a non-empty query ends
\* with a text rendered in the result area.
C1_NoExceptionReachesShell ==
    SearchRunEnded =>
        /\ exception = "none"
        /\ state = "Displayed"
        /\ result_display # <<>>

\* the texts by which firecrawl_websearch explains a failure
FirecrawlExplains(text) ==
    \/ text = <<"no key">>
    \/ Head(text) \in {"Error occurred while searching: "}
    \/ \E e \in Exceptions : text = ConnectionErrorText(e)

\* C2: when the credential of the selected provider is missing (the secret store
\* returns no value, or the lookup itself fails), the provider call raises
\* nothing and yields a result whose text explains the failure and, for
\* agent_websearch, whose sources and search_queries lists are present and empty.
C2_MissingCredentialResult ==
    (SearchRunEnded /\ secret \in {"raises", "none", "empty"}) =>
        /\ exception = "none"
        /\ state = "Displayed"
        /\ IF calls["agent_websearch"] = 1
           THEN /\ result.pytype = "dict"
                /\ {"answer", "sources", "search_queries"} \subseteq DOMAIN result.v
                /\ result.v.sources = <<>>
                /\ result.v.search_queries = <<>>
                /\ result.v.answer # <<>>
                /\ OccursAt(result_display, 2, result.v.answer)
           ELSE /\ result.pytype = "str"
                /\ FirecrawlExplains(result.v)
                /\ result_display = result.v

\* C3: pressing Search with an empty query calls neither provider function,
\* issues no upstream request and shows the warning, whichever provider is
\* selected and whatever happened before.
C3_EmptyQueryNoProviderCall ==
    (search_button /\ user_query = <<>>) =>
        /\ warning
        /\ state = "Idle"
        /\ calls = NoCalls
        /\ requests = 0
        /\ inflight = 0
        /\ result = NoValue

\* C3 witness: the warning is up after Search was pressed on an empty query with
\* Firecrawl selected (so after earlier actions).
C3_Witness ==
    /\ search_button
    /\ user_query = <<>>
    /\ search_provider = "Firecrawl"
    /\ warning

\* C4: a search action with a non-empty query goes Idle -> AwaitingResult ->
\* Displayed and calls exactly the provider function of the current selection,
\* which issues at most one upstream request; at most one request is in flight
\* at any time, and none without a user trigger.
C4_OneProviderPerAction ==
    /\ inflight <= 1
    /\ requests <= 1
    /\ (inflight = 1 => search_button /\ user_query # <<>> /\ state = "AwaitingResult")
    /\ (calls # NoCalls => search_button /\ user_query # <<>>)
    /\ (state = "AwaitingResult" => search_button /\ user_query # <<>>)
    /\ (SearchRunEnded =>
            /\ state = "Displayed"
            /\ calls = IF search_provider = "OpenAI"
                       THEN [agent_websearch |-> 1, firecrawl_websearch |-> 0]
                       ELSE [agent_websearch |-> 0, firecrawl_websearch |-> 1])

\* C5: with Firecrawl selected, whenever no result qualifies (results.web is
\* empty or absent, or none of its entries exposes content) the rendered output
\* is one and the same sentinel: the text returned for an empty result list.
C5_SingleNoResultsSentinel ==
    (FirecrawlDisplayed /\ upstream.kind = "ok" /\ QualifyingAt(upstream.web) = {}) =>
        result_display = FirecrawlFormat(Some(<<>>))

-----------------------------------------------------------------------------
(* C6 - C8, C10: agent_websearch's result and its normalized text *)

\* the "- {title}: {url}" lines of a list of citations
CitationLines(cs) ==
    Flatten([k \in 1..Len(cs) |-> <<"- ">> \o cs[k].title \o <<": ">> \o cs[k].url \o <<"\n">>])

\* C6: when a response carries at least one url_citation annotation, the
\* normalized text has one "Sources:" block, and the block is the
\* "- {title}: {url}" lines of all the url_citation annotations of the response,
\* in emission order across items, none dropped, duplicated or reordered.
C6_CitationsInSourcesBlock ==
    (AgentDisplayed /\ upstream.kind = "ok" /\ Cited(upstream.response) # <<>>) =>
        LET lines == CitationLines(Cited(upstream.response))
            at == Occurrences(result_display, "Sources:\n")
        IN /\ Cardinality(at) = 1
           /\ \A i \in at :
                /\ OccursAt(result_display, i + 1, lines)
                /\ \/ i + Len(lines) + 1 > Len(result_display)
                   \/ result_display[i + Len(lines) + 1] # "- "
           /\ Cardinality(Occurrences(result_display, "- ")) = Len(Cited(upstream.response))

\* C6 witness: a rendered response with two different citations, emitted by
\* two different items.
C6_Witness ==
    /\ AgentDisplayed
    /\ upstream.kind = "ok"
    /\ Len(upstream.response.output) = 2
    /\ Len(Cited(upstream.response)) = 2
    /\ Cited(upstream.response)[1] # Cited(upstream.response)[2]

\* C7: a result of agent_websearch with answer X and empty sources and
\* search_queries is rendered as exactly "Answer:\nX\n\n", with no Sources
\* block, no Search Queries line and no Token Usage line, on every return path
\* that yields such a result, the error results included.
C7_BareAnswerText ==
    (AgentDisplayed /\ result.v.sources = <<>> /\ result.v.search_queries = <<>>) =>
        result_display = <<"Answer:\n">> \o result.v.answer \o <<"\n\n">>

\* C7 witness: the error result of a raising upstream call has been rendered.
C7_Witness ==
    /\ AgentDisplayed
    /\ upstream.kind = "raise"
    /\ result.v.sources = <<>>
    /\ result.v.search_queries = <<>>
    /\ "usage" \in DOMAIN result.v

\* the queries of a log, comma-joined
CommaJoined(log) ==
    Flatten([k \in 1..Len(log) |-> IF k = 1 THEN log[k] ELSE <<", ">> \o log[k]])

\* C8: the normalized text has no "Search Queries Used" line when the query log
\* is empty (no web_search_call item carried queries, or the call failed), and
\* has the line, with the queries comma-joined in issue order, when it is not.
C8_SearchQueriesLine ==
    AgentDisplayed =>
        LET log == IF upstream.kind = "ok" THEN QueryLog(upstream.response) ELSE <<>>
            at == Occurrences(result_display, "\nSearch Queries Used: ")
        IN /\ result.v.search_queries = log
           /\ IF log = <<>>
              THEN at = {}
              ELSE /\ Cardinality(at) = 1
                   /\ \A i \in at :
                        OccursAt(result_display, i + 1, CommaJoined(log) \o <<"\n">>)

\* C8 witness: a rendered response whose first web_search_call carried a query
\* and whose second carried none.
C8_Witness ==
    /\ AgentDisplayed
    /\ upstream.kind = "ok"
    /\ Len(upstream.response.output) = 2
    /\ upstream.response.output[1] =
         [type |-> "web_search_call", action |-> [type |-> "search", queries |-> <<<<"q1">>>>]]
    /\ upstream.response.output[2] =
         [type |-> "web_search_call", action |-> [type |-> "search", queries |-> <<>>]]
    /\ Occurrences(result_display, "\nSearch Queries Used: ") # {}

\* the texts of the output_text parts of a response, in output order
EmittedTexts(response) ==
    [i \in 1..Len(TextParts(response)) |-> TextParts(response)[i].text]

\* C10 as claimed: the answer is the text of the last output_text part, the
\* sources are the citations of all of them, and the answer is the empty string
\* exactly when the response has no output_text part.
C10_AnswerEmptyIffNoText ==
    (AgentDisplayed /\ upstream.kind = "ok") =>
        LET texts == EmittedTexts(upstream.response)
        IN /\ texts # <<>> => result.v.answer = texts[Len(texts)]
           /\ result.v.sources = Cited(upstream.response)
           /\ (result.v.answer = <<>>) <=> (texts = <<>>)

\* C10 as amended: the answer is the text of the last output_text part
\* (overwritten, not concatenated), the sources are the citations of all of
\* them, and the answer is the empty string when the response has no output_text
\* part or when the last one's text is itself empty.
C10_LastTextAllSources ==
    (AgentDisplayed /\ upstream.kind = "ok") =>
        LET texts == EmittedTexts(upstream.response)
        IN /\ texts # <<>> => result.v.answer = texts[Len(texts)]
           /\ texts = <<>> => result.v.answer = <<>>
           /\ result.v.sources = Cited(upstream.response)
           /\ (result.v.answer = <<>>) <=> (texts = <<>> \/ texts[Len(texts)] = <<>>)

\* C10 witness: two output_text parts with different texts, the first with a
\* citation and the last without: the sources cite text that is not the answer.
C10_Witness ==
    /\ AgentDisplayed
    /\ upstream.kind = "ok"
    /\ EmittedTexts(upstream.response) = << <<"a">>, <<"b">> >>
    /\ TextParts(upstream.response)[1].annotations # <<>>
    /\ TextParts(upstream.response)[2].annotations = <<>>
    /\ result.v.answer = <<"b">>
    /\ result.v.sources # <<>>

-----------------------------------------------------------------------------
(* C9: firecrawl_websearch's text *)

\* the number of content-exposing entries up to entry i
Rank(web, i) == Cardinality({j \in QualifyingAt(web) : j <= i})

\* a field's value, or the placeholder when it is absent (None or empty)
OrElse(o, placeholder) == IF o.some /\ o.v # <<>> THEN o.v ELSE placeholder

\* C9: with at least one content-exposing entry, the output is one block per
\* such entry, in the order of results.web, blocks separated by one blank line;
\* a block is the TITLE line (the title, "N/A" when absent), the URL line (the
\* source URL, else the secondary url, else "N/A") and the MARKDOWN line (the
\* content, "No content" when absent) closed by "..."; entries that expose no
\* content give no block.
C9_BlocksPerQualifyingResult ==
    (FirecrawlDisplayed /\ upstream.kind = "ok" /\ QualifyingAt(upstream.web) # {}) =>
        LET web == upstream.web
            n == Cardinality(QualifyingAt(web))
            text == result_display
        IN /\ Len(text) = 10 * n - 1
           /\ \A i \in QualifyingAt(web) :
                LET r == WebList(web)[i]
                    b == 10 * (Rank(web, i) - 1)
                    md == r.metadata
                IN /\ text[b + 1] = "TITLE: "
                   /\ <<text[b + 2]>> = IF md.some THEN OrElse(md.title, <<"N/A">>) ELSE <<"N/A">>
                   /\ text[b + 3] = "\n"
                   /\ text[b + 4] = "URL: "
                   /\ <<text[b + 5]>> =
                        IF md.some
                        THEN OrElse(md.source_url, OrElse(md.url, <<"N/A">>))
                        ELSE <<"N/A">>
                   /\ text[b + 6] = "\n"
                   /\ text[b + 7] = "MARKDOWN: "
                   /\ <<text[b + 8]>> = OrElse(r.markdown, <<"No content">>)
                   /\ text[b + 9] = "..."
                   /\ Rank(web, i) < n => text[b + 10] = "\n\n"

\* C9 witness: two content-exposing entries rendered as two blocks, the first
\* with a title and both URL fields, the second without metadata.
C9_Witness ==
    /\ FirecrawlDisplayed
    /\ upstream.kind = "ok"
    /\ upstream.web.some
    /\ Len(upstream.web.v) = 2
    /\ QualifyingAt(upstream.web) = {1, 2}
    /\ upstream.web.v[1].metadata.some
    /\ upstream.web.v[1].metadata.title = Some(<<"Paris - Wikipedia">>)
    /\ upstream.web.v[1].metadata.source_url # None
    /\ upstream.web.v[1].metadata.url = Some(<<"https://u">>)
    /\ ~upstream.web.v[2].metadata.some
    /\ Len(result_display) = 19

=============================================================================
